---- MODULE Spec2Model ----
(***************************************************************************)
(* Dental appointment booking (backend/server.js,                          *)
(* backend/models/Appointment.js, frontend/src/App.js): the slot policy    *)
(* evaluator validateAppointmentSlot, the booking, list and availability   *)
(* routes running concurrently against the shared appointments collection, *)
(* and the state of the client's AppointmentForm.                          *)
(*                                                                         *)
(* A Date value is an integer count of ticks since the epoch, expressed in *)
(* the server's local time; a calendar day is TicksPerDay ticks long.      *)
(* The slot labels are written with an ASCII hyphen where the source uses  *)
(* an en dash.                                                             *)
(***************************************************************************)
EXTENDS Integers, Naturals, Sequences, FiniteSets, TLC

\* ---------------------------------------------------------------- bounds
\* number of request handlers that can be in flight at the same time
NumProcs == 2
\* total number of booking requests received in a behaviour
MaxRequests == 2
\* granularity of the time-of-day component of a Date
TicksPerDay == 2
\* last calendar day (days since the epoch) a request may name
MaxDay == 4
\* number of ticks the clock may advance after start-up
MaxTicks == 2
\* number of catalog slots, from the last morning slot on, that booking
\* requests name
SlotWindow == 2
\* number of availability requests the client sends in a behaviour
MaxFetches == 3
\* ledgers of 0..ListSmall documents, and of ListLimit - 1 .. ListLimit + 1
\* documents, are listed
ListSmall == 3
\* number of orders in which the listed ledgers were inserted
ListPatterns == 6

\* ------------------------------------------------------- program constants
\* getDay() of the epoch day: 1970-01-01 was a Thursday
EpochDay == 4
\* index in the catalog of '12:00-1:00 PM', the last slot open on Saturdays
LastMorningSlot == 4

\* first calendar day a request may name: the first Saturday of the epoch
FirstDay == 6 - EpochDay

Procs == 1..NumProcs
Dates == (FirstDay * TicksPerDay)..(MaxDay * TicksPerDay + TicksPerDay - 1)
FirstNow == FirstDay * TicksPerDay
MaxNow == FirstNow + MaxTicks

\* the slot catalog: appointmentValidation's isIn list, the schema's enum
allSlots ==
  << "9:00-10:00 AM", "10:00-11:00 AM", "11:00-12:00 PM",
     "12:00-1:00 PM", "2:00-3:00 PM", "3:00-4:00 PM" >>

Range(f) == {f[i] : i \in DOMAIN f}

Catalog == Range(allSlots)

\* a timeSlot value the isIn validator rejects
InvalidSlot == "8:00-9:00 AM"

\* the timeSlot values booking requests carry
RequestSlots ==
  {allSlots[i] : i \in {j \in DOMAIN allSlots :
                          /\ j >= LastMorningSlot
                          /\ j < LastMorningSlot + SlotWindow}}
    \cup {InvalidSlot}

Null == [null |-> TRUE]

\* ------------------------------------------------------------ text fields
\* a text is a sequence of characters; Space is the whitespace character
Space == " "

RECURSIVE trimStart(_)
trimStart(text) ==
  IF text # << >> /\ Head(text) = Space THEN trimStart(Tail(text)) ELSE text

RECURSIVE trimEnd(_)
trimEnd(text) ==
  IF text # << >> /\ text[Len(text)] = Space
    THEN trimEnd(SubSeq(text, 1, Len(text) - 1))
    ELSE text

\* trim leaving the text as submitted
trim_identity(text) == text

\* the trim() sanitizer of the name and complaint chains
trim(text) == trimEnd(trimStart(text))

\* the value of a decimal digit
digit == [c \in {"0", "1", "2", "3", "4", "5", "6", "7", "8", "9"} |->
            CASE c = "0" -> 0 [] c = "1" -> 1 [] c = "2" -> 2 [] c = "3" -> 3
              [] c = "4" -> 4 [] c = "5" -> 5 [] c = "6" -> 6 [] c = "7" -> 7
              [] c = "8" -> 8 [] c = "9" -> 9]

\* the Number a numeral is cast to: the schema's type: Number
RECURSIVE castNumber(_)
castNumber(text) ==
  IF text = << >> THEN 0
  ELSE 10 * castNumber(SubSeq(text, 1, Len(text) - 1)) + digit[text[Len(text)]]

\* isInt({ min, max }): a numeral, leading zeroes allowed, within min..max
isInt(text, min, max) ==
  /\ text # << >>
  /\ \A i \in DOMAIN text : text[i] \in DOMAIN digit
  /\ castNumber(text) >= min
  /\ castNumber(text) <= max

\* the patient fields booking requests carry: one submitted clean, one with
\* whitespace around the name and after the complaint and with the age
\* written with a leading zero
Patients ==
  { [name |-> << "A", "l" >>, sex |-> "Male", age |-> << "3", "0" >>,
     complaint |-> << "a", "c", "h", "e", "s" >>],
    [name |-> << Space, "B", "o", Space >>, sex |-> "Other",
     age |-> << "0", "7" >>,
     complaint |-> << "d", "e", "c", "a", "y", Space >>] }

\* a request body: the patient fields with the date and the slot
Body(patient, appointmentDate, timeSlot) ==
  [name |-> patient.name, sex |-> patient.sex, age |-> patient.age,
   complaint |-> patient.complaint, appointmentDate |-> appointmentDate,
   timeSlot |-> timeSlot]

\* the sanitizers of appointmentValidation: req.body as the handler reads it
sanitize(body) ==
  [body EXCEPT !.name = trim(@), !.complaint = trim(@)]

\* validationResult(req).isEmpty(): every chain of appointmentValidation
\* accepts its field
validationPasses(body) ==
  /\ Len(trim(body.name)) >= 2 /\ Len(trim(body.name)) <= 100
  /\ body.sex \in {"Male", "Female", "Other"}
  /\ isInt(body.age, 0, 150)
  /\ Len(trim(body.complaint)) >= 5 /\ Len(trim(body.complaint)) <= 500
  /\ body.timeSlot \in Catalog

\* -------------------------------------------------------- Date arithmetic
\* Date.prototype.getDay: Sunday is 0, Saturday is 6
getDay(date) == ((date \div TicksPerDay) + EpochDay) % 7

\* setHours0 with the truncation left out
setHours0_noTruncation(date) == date

\* date.setHours(0, 0, 0, 0): the start of the date's calendar day
setHours0(date) == date - (date % TicksPerDay)

\* ------------------------------------------------------- policy evaluator
\* afternoonSlots with the '2:00-3:00 PM' entry missing
afternoonSlots_lastOnly == {"3:00-4:00 PM"}

afternoonSlots == {"2:00-3:00 PM", "3:00-4:00 PM"}

\* validateAppointmentSlot testing for Sunday as day 7 instead of day 0
validateAppointmentSlot_sundaySeven(appointmentDate, timeSlot, clock) ==
  LET dayOfWeek == getDay(appointmentDate)
      today == setHours0(clock)
      date == setHours0(appointmentDate)
  IN  IF dayOfWeek = 7
        THEN [isValid |-> FALSE,
              message |-> "Appointments are not available on Sundays"]
      ELSE IF dayOfWeek = 6 /\ timeSlot \in afternoonSlots
        THEN [isValid |-> FALSE,
              message |-> "On Saturdays, appointments are only available until 1:00 PM"]
      ELSE IF date < today
        THEN [isValid |-> FALSE,
              message |-> "Cannot book appointments for past dates"]
      ELSE [isValid |-> TRUE, message |-> ""]

\* validateAppointmentSlot with the past-date check moved to the front
validateAppointmentSlot_pastFirst(appointmentDate, timeSlot, clock) ==
  LET dayOfWeek == getDay(appointmentDate)
      today == setHours0(clock)
      date == setHours0(appointmentDate)
  IN  IF date < today
        THEN [isValid |-> FALSE,
              message |-> "Cannot book appointments for past dates"]
      ELSE IF dayOfWeek = 0
        THEN [isValid |-> FALSE,
              message |-> "Appointments are not available on Sundays"]
      ELSE IF dayOfWeek = 6 /\ timeSlot \in afternoonSlots
        THEN [isValid |-> FALSE,
              message |-> "On Saturdays, appointments are only available until 1:00 PM"]
      ELSE [isValid |-> TRUE, message |-> ""]

\* validateAppointmentSlot; clock is the value new Date() reads at the call
validateAppointmentSlot(appointmentDate, timeSlot, clock) ==
  LET dayOfWeek == getDay(appointmentDate)
      today == setHours0(clock)
      date == setHours0(appointmentDate)
  IN  IF dayOfWeek = 0
        THEN [isValid |-> FALSE,
              message |-> "Appointments are not available on Sundays"]
      ELSE IF dayOfWeek = 6 /\ timeSlot \in afternoonSlots
        THEN [isValid |-> FALSE,
              message |-> "On Saturdays, appointments are only available until 1:00 PM"]
      ELSE IF date < today
        THEN [isValid |-> FALSE,
              message |-> "Cannot book appointments for past dates"]
      ELSE [isValid |-> TRUE, message |-> ""]

\* ----------------------------------------------------------------- ledger
\* findOne with the query date truncated to the start of its day while the
\* stored dates are compared as they are
findOne_truncatedQuery(coll, appointmentDate, timeSlot) ==
  LET hits == {i \in DOMAIN coll :
                 /\ coll[i].appointmentDate = setHours0(appointmentDate)
                 /\ coll[i].timeSlot = timeSlot}
  IN  IF hits = {} THEN Null
      ELSE coll[CHOOSE i \in hits : \A j \in hits : i <= j]

\* Appointment.findOne({appointmentDate, timeSlot}): the first stored
\* document equal to the query on both fields, or null
findOne(coll, appointmentDate, timeSlot) ==
  LET hits == {i \in DOMAIN coll :
                 /\ coll[i].appointmentDate = appointmentDate
                 /\ coll[i].timeSlot = timeSlot}
  IN  IF hits = {} THEN Null
      ELSE coll[CHOOSE i \in hits : \A j \in hits : i <= j]

\* duplicateKey with the compound index declared unique as well
duplicateKey_pairUnique(coll, doc) ==
  \E i \in DOMAIN coll :
    \/ coll[i].id = doc.id
    \/ /\ coll[i].appointmentDate = doc.appointmentDate
       /\ coll[i].timeSlot = doc.timeSlot

\* the schema's unique indexes: only the id path is declared unique; the
\* compound index on (appointmentDate, timeSlot) carries no unique option
duplicateKey(coll, doc) == \E i \in DOMAIN coll : coll[i].id = doc.id

\* new Appointment({...}): the document the handler builds, with the
\* schema defaults for createdAt and status
newAppointment(id, body, clock) ==
  [id |-> id, name |-> trim(body.name), sex |-> body.sex, age |-> castNumber(body.age),
   complaint |-> trim(body.complaint),
   appointmentDate |-> body.appointmentDate, timeSlot |-> body.timeSlot,
   createdAt |-> clock, status |-> "scheduled"]

\* save replacing the stored document of the same date and slot, if any
save_upsert(coll, doc) ==
  IF \E i \in DOMAIN coll : /\ coll[i].appointmentDate = doc.appointmentDate
                             /\ coll[i].timeSlot = doc.timeSlot
    THEN [i \in DOMAIN coll |->
            IF /\ coll[i].appointmentDate = doc.appointmentDate
               /\ coll[i].timeSlot = doc.timeSlot
              THEN doc ELSE coll[i]]
    ELSE Append(coll, doc)

\* appointment.save() of a new document: one insert
save(coll, doc) == Append(coll, doc)

NoAppointment == [id |-> 0, name |-> << >>, sex |-> "", age |-> 0,
                  complaint |-> << >>, appointmentDate |-> 0, timeSlot |-> "",
                  createdAt |-> 0, status |-> ""]

\* ------------------------------------------------------------ the handler
NoResponse == [status |-> 0, detail |-> ""]
NoRequest == [name |-> << >>, sex |-> "", age |-> << >>, complaint |-> << >>,
              appointmentDate |-> 0, timeSlot |-> ""]
NoValidation == [isValid |-> FALSE, message |-> "not evaluated"]

\* afterSlotValidation ignoring the validation result
afterSlotValidation_ignored(validation) == "findOne"

\* the handler's step after slot validation: reply 400 or go on to findOne
afterSlotValidation(validation) ==
  IF ~validation.isValid THEN "respond" ELSE "findOne"

\* the handler's step after the lookup: reply 400 or go on to save
afterFindOne(existingAppointment) ==
  IF existingAppointment # Null THEN "respond" ELSE "save"

\* policyResponse replying with a fixed text instead of the message
policyResponse_generic(validation) ==
  [status |-> 400, detail |-> "Validation failed"]

\* the 400 reply to a request the slot validation rejects
policyResponse(validation) ==
  [status |-> 400, detail |-> validation.message]

\* the 400 reply to a request whose slot the lookup found taken
duplicateResponse ==
  [status |-> 400,
   detail |-> "This time slot is already booked for the selected date"]

\* catchError logging the error without sending a reply
catchError_noReply == [status |-> 0, detail |-> ""]

\* the catch block: every error becomes a 500 with a generic detail
catchError == [status |-> 500, detail |-> "Failed to create appointment"]

\* saveResponse throwing while it builds the reply, into the catch block
saveResponse_throws == [status |-> 500, detail |-> "Failed to create appointment"]

\* the 200 reply after the save: the stored document with the added
\* appointment_date, time_slot and created_at keys
saveResponse == [status |-> 200, detail |-> ""]

VARIABLES
  ledger,          \* the appointments collection, in insertion order
  now,             \* the server clock
  nextId,          \* source of fresh uuidv4 values
  received,        \* number of requests received so far
  pc,              \* per handler: "idle", "findOne", "save" or "done"
  req,             \* per handler: the request body after validation
  slotValidation,  \* per handler: the result of validateAppointmentSlot
  appointment,     \* per handler: the document awaiting save
  res,             \* per handler: the response sent
  hist,            \* per handler: what the request has observed and done
  evaluation,      \* the last direct call of validateAppointmentSlot
  listing,         \* the last reply of GET /api/appointments
  avail,           \* the last reply of GET /api/appointments/available-slots
  form,            \* AppointmentForm's state: formData, availableSlots,
                   \* isSubmitting
  pending,         \* the client's availability requests in flight
  fetchLog         \* the number and the outcome of the client's last
                   \* availability request

queryVars == << listing, avail >>

clientVars == << form, pending, fetchLog >>

vars == << ledger, now, nextId, received, pc, req, slotValidation,
           appointment, res, hist, evaluation, listing, avail, form, pending,
           fetchLog >>

\* today: the calendar day the request was received on; takenAtStart: a
\* record for its (date, slot) was stored when it was received; lookups,
\* inserts: the store operations it has issued; takenAtSave: a record for
\* its (date, slot) was stored when its insert reached the store; failedAt:
\* the store operation that failed under it; submitted: the body as the
\* client sent it
NoHist == [today |-> 0, takenAtStart |-> FALSE, lookups |-> 0, inserts |-> 0,
           takenAtSave |-> FALSE, failedAt |-> "", submitted |-> NoRequest]

\* a record for (appointmentDate, timeSlot) is stored in coll
Taken(coll, appointmentDate, timeSlot) ==
  \E i \in DOMAIN coll :
    /\ coll[i].appointmentDate = appointmentDate
    /\ coll[i].timeSlot = timeSlot

NoEvaluation == [appointmentDate |-> 0, timeSlot |-> "", clock |-> 0,
                 result |-> NoValidation]

\* ------------------------------------------------------ the list handler
\* the cap of .limit(1000)
ListLimit == 1000

Reverse(seq) == [i \in 1..Len(seq) |-> seq[Len(seq) + 1 - i]]

\* the documents of coll, all dated from lo to hi, by ascending date:
\* those dated in the lower half of lo..hi before those dated in the upper
\* half; documents with equal dates come in insertion order or in the
\* reverse of it, as the store picks (tie)
RECURSIVE byDateFrom(_, _, _, _)
byDateFrom(coll, lo, hi, tie) ==
  IF coll = << >> THEN << >>
  ELSE IF lo >= hi THEN (IF tie = "reverse" THEN Reverse(coll) ELSE coll)
  ELSE LET mid == (lo + hi) \div 2
       IN  byDateFrom(SelectSeq(coll, LAMBDA r : r.appointmentDate <= mid),
                      lo, mid, tie)
             \o byDateFrom(SelectSeq(coll, LAMBDA r : r.appointmentDate > mid),
                           mid + 1, hi, tie)

AllDates(coll) == {coll[i].appointmentDate : i \in DOMAIN coll}

Least(S) == CHOOSE x \in S : \A y \in S : x <= y
Greatest(S) == CHOOSE x \in S : \A y \in S : x >= y

\* sortByDate with the order turned round: sort({ appointmentDate: -1 })
sortByDate_descending(coll, tie) ==
  IF coll = << >> THEN << >>
  ELSE Reverse(byDateFrom(coll, Least(AllDates(coll)),
                          Greatest(AllDates(coll)), tie))

\* .sort({ appointmentDate: 1 })
sortByDate(coll, tie) ==
  IF coll = << >> THEN << >>
  ELSE byDateFrom(coll, Least(AllDates(coll)), Greatest(AllDates(coll)), tie)

\* .limit(n)
limit(coll, n) == SubSeq(coll, 1, IF Len(coll) < n THEN Len(coll) ELSE n)

\* Appointment.find().sort({ appointmentDate: 1 }).limit(1000)
findSorted(coll, tie) == limit(sortByDate(coll, tie), ListLimit)

\* toISOString().split('T')[0]: the calendar day of a Date, without its
\* time of day
isoDay(date) == date \div TicksPerDay

\* the reply entry of one document: its fields and the three added keys
transformed(doc) ==
  [id |-> doc.id, name |-> doc.name, sex |-> doc.sex, age |-> doc.age,
   complaint |-> doc.complaint, appointmentDate |-> doc.appointmentDate,
   timeSlot |-> doc.timeSlot, createdAt |-> doc.createdAt,
   status |-> doc.status, appointment_date |-> isoDay(doc.appointmentDate),
   time_slot |-> doc.timeSlot, created_at |-> doc.createdAt]

transformedAppointments(appointments) ==
  [i \in 1..Len(appointments) |-> transformed(appointments[i])]

\* size: the number of documents stored when the store read them
NoListing == [status |-> 0, appointments |-> << >>, size |-> 0]

\* ---------------------------------------------- the availability handler
\* the handler's step after getDay: reading the collection even on Sundays
sundayShortcut_never(dayOfWeek) == FALSE

\* if (dayOfWeek === 0): the handler replies without reading the collection
sundayShortcut(dayOfWeek) == dayOfWeek = 0

\* availableSlots emptied for dates before today
availableSlots_pastDateRule(targetDate) ==
  IF setHours0(targetDate) < setHours0(now) THEN << >>
  ELSE IF getDay(targetDate) = 6 THEN SubSeq(allSlots, 1, LastMorningSlot)
  ELSE allSlots

\* availableSlots before the booked slots are filtered out: the four
\* morning slots on Saturdays, allSlots otherwise
availableSlots(targetDate) ==
  IF getDay(targetDate) = 6 THEN SubSeq(allSlots, 1, LastMorningSlot)
  ELSE allSlots

\* find matching every document of targetDate's calendar day
find_sameDay(coll, targetDate) ==
  SelectSeq(coll, LAMBDA r : r.appointmentDate \div TicksPerDay
                               = targetDate \div TicksPerDay)

\* Appointment.find({ appointmentDate: targetDate })
find(coll, targetDate) ==
  SelectSeq(coll, LAMBDA r : r.appointmentDate = targetDate)

\* bookedAppointments.map(appointment => appointment.timeSlot)
bookedSlots(bookedAppointments) ==
  {bookedAppointments[i].timeSlot : i \in DOMAIN bookedAppointments}

\* availableSlots.filter(slot => !bookedSlots.includes(slot))
finalAvailableSlots(targetDate, bookedAppointments) ==
  SelectSeq(availableSlots(targetDate),
            LAMBDA slot : slot \notin bookedSlots(bookedAppointments))

\* ------------------------------------------- the client: AppointmentForm
\* the empty date input
NoDate == 0

\* useState of formData (its date and slot fields), availableSlots and
\* isSubmitting
InitialForm ==
  [formData |-> [appointment_date |-> NoDate, time_slot |-> ""],
   availableSlots |-> << >>, isSubmitting |-> FALSE]

InitClient ==
  /\ form = InitialForm
  /\ pending = {}
  /\ fetchLog = [seq |-> 0, outcome |-> "none"]

\* read: whether the handler queried the collection; of a reply listing
\* slots, size: the number of documents stored when it was sent; clock: the
\* time it was sent; repeat: whether the reply before it listed slots for
\* the same date with no document inserted in between
NoAvail == [status |-> 0, detail |-> "", date |-> 0, available_slots |-> << >>,
            message |-> "", read |-> FALSE, size |-> 0, clock |-> 0,
            repeat |-> FALSE]

Repeats(last, targetDate, coll) ==
  /\ last.status = 200
  /\ last.date = targetDate
  /\ last.size = Len(coll)

Init ==
  /\ ledger = << >>
  /\ now = FirstNow
  /\ nextId = 1
  /\ received = 0
  /\ pc = [p \in Procs |-> "idle"]
  /\ req = [p \in Procs |-> NoRequest]
  /\ slotValidation = [p \in Procs |-> NoValidation]
  /\ appointment = [p \in Procs |-> NoAppointment]
  /\ res = [p \in Procs |-> NoResponse]
  /\ hist = [p \in Procs |-> NoHist]
  /\ evaluation = NoEvaluation
  /\ listing = NoListing
  /\ avail = NoAvail
  /\ InitClient

\* the clock advances
Tick ==
  /\ now < MaxNow
  /\ now' = now + 1
  /\ UNCHANGED << ledger, nextId, received, pc, req, slotValidation,
                  appointment, res, hist, evaluation, queryVars, clientVars >>

\* POST /api/appointments up to its first await: field validation, slot
\* validation, and the findOne query is issued
Receive(p, patient, appointmentDate, timeSlot) ==
  /\ pc[p] \in {"idle", "done"}
  /\ received < MaxRequests
  /\ received' = received + 1
  /\ req' = [req EXCEPT ![p] =
               sanitize(Body(patient, appointmentDate, timeSlot))]
  /\ appointment' = [appointment EXCEPT ![p] = NoAppointment]
  /\ hist' = [hist EXCEPT ![p] =
                [NoHist EXCEPT !.today = setHours0(now),
                               !.takenAtStart =
                                  Taken(ledger, appointmentDate, timeSlot),
                               !.submitted =
                                  Body(patient, appointmentDate, timeSlot)]]
  /\ IF ~validationPasses(Body(patient, appointmentDate, timeSlot))
       THEN /\ slotValidation' = [slotValidation EXCEPT ![p] = NoValidation]
            /\ res' = [res EXCEPT ![p] = [status |-> 400,
                                          detail |-> "Validation failed"]]
            /\ pc' = [pc EXCEPT ![p] = "done"]
       ELSE LET v == validateAppointmentSlot(appointmentDate, timeSlot, now)
            IN  /\ slotValidation' = [slotValidation EXCEPT ![p] = v]
                /\ IF afterSlotValidation(v) = "respond"
                     THEN /\ res' = [res EXCEPT ![p] = policyResponse(v)]
                          /\ pc' = [pc EXCEPT ![p] = "done"]
                     ELSE /\ res' = [res EXCEPT ![p] = NoResponse]
                          /\ pc' = [pc EXCEPT ![p] = "findOne"]
  /\ UNCHANGED << ledger, now, nextId, evaluation, queryVars, clientVars >>

\* the store answers the findOne; the handler replies 400 on a hit, else
\* builds the document and issues the save
FindOneReturns(p) ==
  /\ pc[p] = "findOne"
  /\ hist' = [hist EXCEPT ![p].lookups = @ + 1]
  /\ LET existingAppointment ==
           findOne(ledger, req[p].appointmentDate, req[p].timeSlot)
     IN  IF afterFindOne(existingAppointment) = "respond"
           THEN /\ res' = [res EXCEPT ![p] = duplicateResponse]
                /\ pc' = [pc EXCEPT ![p] = "done"]
                /\ UNCHANGED << appointment, nextId >>
           ELSE /\ appointment' = [appointment EXCEPT ![p] =
                     newAppointment(nextId, req[p], now)]
                /\ nextId' = nextId + 1
                /\ pc' = [pc EXCEPT ![p] = "save"]
                /\ UNCHANGED res
  /\ UNCHANGED << ledger, now, received, req, slotValidation, evaluation, queryVars, clientVars >>

\* the store fails the findOne: the await throws into the catch block
FindOneFails(p) ==
  /\ pc[p] = "findOne"
  /\ hist' = [hist EXCEPT ![p].lookups = @ + 1, ![p].failedAt = "findOne"]
  /\ res' = [res EXCEPT ![p] = catchError]
  /\ pc' = [pc EXCEPT ![p] = "done"]
  /\ UNCHANGED << ledger, now, nextId, received, req, slotValidation,
                  appointment, evaluation, queryVars, clientVars >>

\* the store performs the insert and the handler replies 200; the insert is
\* refused only on a key a unique index already holds
SaveReturns(p) ==
  /\ pc[p] = "save"
  /\ hist' = [hist EXCEPT ![p].inserts = @ + 1,
                          ![p].takenAtSave =
                             Taken(ledger, req[p].appointmentDate,
                                   req[p].timeSlot)]
  /\ IF duplicateKey(ledger, appointment[p])
       THEN /\ res' = [res EXCEPT ![p] = catchError]
            /\ UNCHANGED ledger
       ELSE /\ ledger' = save(ledger, appointment[p])
            /\ res' = [res EXCEPT ![p] = saveResponse]
  /\ pc' = [pc EXCEPT ![p] = "done"]
  /\ UNCHANGED << now, nextId, received, req, slotValidation, appointment,
                  evaluation, queryVars, clientVars >>

\* the store fails the insert: nothing is written, the catch block replies
SaveFails(p) ==
  /\ pc[p] = "save"
  /\ hist' = [hist EXCEPT ![p].inserts = @ + 1,
                          ![p].takenAtSave =
                             Taken(ledger, req[p].appointmentDate,
                                   req[p].timeSlot),
                          ![p].failedAt = "save"]
  /\ res' = [res EXCEPT ![p] = catchError]
  /\ pc' = [pc EXCEPT ![p] = "done"]
  /\ UNCHANGED << ledger, now, nextId, received, req, slotValidation,
                  appointment, evaluation, queryVars, clientVars >>

Next ==
  \/ Tick
  \/ \E p \in Procs, patient \in Patients, d \in Dates, s \in RequestSlots :
       Receive(p, patient, d, s)
  \/ \E p \in Procs : FindOneReturns(p)
  \/ \E p \in Procs : FindOneFails(p)
  \/ \E p \in Procs : SaveReturns(p)
  \/ \E p \in Procs : SaveFails(p)

Spec == Init /\ [][Next]_vars

\* GET /api/appointments: the store answers the find and the handler
\* replies with the transformed documents
ListReturns(tie) ==
  /\ listing' = [status |-> 200,
                 appointments |->
                   transformedAppointments(findSorted(ledger, tie)),
                 size |-> Len(ledger)]
  /\ UNCHANGED << ledger, now, nextId, received, pc, req, slotValidation,
                  appointment, res, hist, evaluation, avail, clientVars >>

\* the store fails the find: the catch block replies 500
ListFails ==
  /\ listing' = [status |-> 500, appointments |-> << >>, size |-> Len(ledger)]
  /\ UNCHANGED << ledger, now, nextId, received, pc, req, slotValidation,
                  appointment, res, hist, evaluation, avail, clientVars >>

List == ListFails \/ \E tie \in {"insertion", "reverse"} : ListReturns(tie)

\* GET /api/appointments/available-slots without appointment_date
AvailMissing ==
  /\ avail' = [NoAvail EXCEPT
                 !.status = 400,
                 !.detail = "appointment_date query parameter is required"]
  /\ UNCHANGED << ledger, now, nextId, received, pc, req, slotValidation,
                  appointment, res, hist, evaluation, listing, clientVars >>

\* GET /api/appointments/available-slots?appointment_date=targetDate: the
\* Sunday reply, or the reply after the store answered the find
AvailReturns(targetDate) ==
  /\ avail' =
       IF sundayShortcut(getDay(targetDate))
       THEN [NoAvail EXCEPT
               !.status = 200, !.date = targetDate,
               !.message = "No appointments available on Sundays",
               !.size = Len(ledger), !.clock = now,
               !.repeat = Repeats(avail, targetDate, ledger)]
       ELSE [NoAvail EXCEPT
               !.status = 200, !.date = targetDate,
               !.available_slots =
                 finalAvailableSlots(targetDate, find(ledger, targetDate)),
               !.read = TRUE, !.size = Len(ledger), !.clock = now,
               !.repeat = Repeats(avail, targetDate, ledger)]
  /\ UNCHANGED << ledger, now, nextId, received, pc, req, slotValidation,
                  appointment, res, hist, evaluation, listing, clientVars >>

\* the store fails the find: the catch block replies 500
AvailFails(targetDate) ==
  /\ ~sundayShortcut(getDay(targetDate))
  /\ avail' = [NoAvail EXCEPT
                 !.status = 500, !.detail = "Failed to fetch available slots",
                 !.date = targetDate, !.read = TRUE]
  /\ UNCHANGED << ledger, now, nextId, received, pc, req, slotValidation,
                  appointment, res, hist, evaluation, listing, clientVars >>

Avail ==
  \/ AvailMissing
  \/ \E targetDate \in Dates : AvailReturns(targetDate)
  \/ \E targetDate \in Dates : AvailFails(targetDate)

\* the patient whose bookings the availability queries run against
AvailPatient == CHOOSE q \in Patients : q.sex = "Male"

\* bookings of one patient, served by a store that answers them, and
\* availability queries against the same collection
NextAvail ==
  \/ Tick
  \/ \E p \in Procs, d \in Dates, s \in RequestSlots \cap Catalog :
       Receive(p, AvailPatient, d, s)
  \/ \E p \in Procs : FindOneReturns(p)
  \/ \E p \in Procs : SaveReturns(p)
  \/ Avail

SpecAvail == Init /\ [][NextAvail]_vars

\* the dates and the slot the requests of all three routes name: the
\* calendar dates of Dates and the last morning slot
RouteDates == {d \in Dates : d % TicksPerDay = 0}
RouteSlot == allSlots[LastMorningSlot]

\* ------------------------------------------------- the client's handlers
backendVars == << ledger, now, nextId, received, pc, req, slotValidation,
                 appointment, res, hist, evaluation, listing, avail >>

\* response.data.available_slots of the server's reply for date
available_slots(date) ==
  IF sundayShortcut(getDay(date)) THEN << >>
  ELSE finalAvailableSlots(date, find(ledger, date))

\* handleInputChange of the date input, and the effect on
\* formData.appointment_date of the render that follows: a date that is not
\* empty is fetched by that render's fetchAvailableSlots, whose formData is
\* that render's
ChangeDate(date) ==
  /\ date # form.formData.appointment_date
  /\ form' = [form EXCEPT !.formData.appointment_date = date]
  /\ IF date # NoDate
       THEN /\ fetchLog.seq < MaxFetches
            /\ pending' = pending \cup
                 {[seq |-> fetchLog.seq + 1, date |-> date,
                   time_slot |-> form.formData.time_slot]}
            /\ fetchLog' = [seq |-> fetchLog.seq + 1, outcome |-> "sent"]
       ELSE UNCHANGED << pending, fetchLog >>
  /\ UNCHANGED backendVars

\* handleInputChange of the slot select: enabled once a date is chosen, its
\* options are the empty one and availableSlots
ChangeSlot(slot) ==
  /\ form.formData.appointment_date # NoDate
  /\ slot \in Range(form.availableSlots) \cup {""}
  /\ slot # form.formData.time_slot
  /\ form' = [form EXCEPT !.formData.time_slot = slot]
  /\ UNCHANGED << pending, fetchLog >>
  /\ UNCHANGED backendVars

\* fetchAvailableSlots after its await: the reply of request r arrives
FetchReturns(r) ==
  /\ r \in pending
  /\ pending' = pending \ {r}
  /\ fetchLog' = IF r.seq = fetchLog.seq
                   THEN [fetchLog EXCEPT !.outcome = "ok"] ELSE fetchLog
  /\ LET slots == available_slots(r.date)
     IN  form' =
           IF r.time_slot # "" /\ r.time_slot \notin Range(slots)
             THEN [form EXCEPT !.availableSlots = slots,
                               !.formData.time_slot = ""]
             ELSE [form EXCEPT !.availableSlots = slots]
  /\ UNCHANGED backendVars

\* fetchAvailableSlots' catch block: request r failed
FetchFails(r) ==
  /\ r \in pending
  /\ pending' = pending \ {r}
  /\ fetchLog' = IF r.seq = fetchLog.seq
                   THEN [fetchLog EXCEPT !.outcome = "error"] ELSE fetchLog
  /\ form' = [form EXCEPT !.availableSlots = << >>]
  /\ UNCHANGED backendVars

\* handleSubmit up to its await, of a form validateForm accepts
Submit ==
  /\ ~form.isSubmitting
  /\ form.formData.appointment_date # NoDate
  /\ form.formData.time_slot # ""
  /\ form' = [form EXCEPT !.isSubmitting = TRUE]
  /\ UNCHANGED << pending, fetchLog >>
  /\ UNCHANGED backendVars

\* handleSubmit after the POST resolved: the form is reset
SubmitReturns ==
  /\ form.isSubmitting
  /\ form' = InitialForm
  /\ UNCHANGED << pending, fetchLog >>
  /\ UNCHANGED backendVars

\* handleSubmit's catch block
SubmitFails ==
  /\ form.isSubmitting
  /\ form' = [form EXCEPT !.isSubmitting = FALSE]
  /\ UNCHANGED << pending, fetchLog >>
  /\ UNCHANGED backendVars

\* the client against a server whose collection is empty
NextForm ==
  \/ \E date \in RouteDates \cup {NoDate} : ChangeDate(date)
  \/ \E slot \in Catalog \cup {""} : ChangeSlot(slot)
  \/ \E r \in pending : FetchReturns(r)
  \/ \E r \in pending : FetchFails(r)
  \/ Submit
  \/ SubmitReturns
  \/ SubmitFails

SpecForm == Init /\ [][NextForm]_vars

\* the handler that serves booking requests one at a time
Alone == CHOOSE p \in Procs : TRUE

\* booking requests served one at a time, none interleaved with another,
\* and availability queries against the same collection
NextAlone ==
  \/ Tick
  \/ \E d \in Dates, s \in RequestSlots : Receive(Alone, AvailPatient, d, s)
  \/ FindOneReturns(Alone)
  \/ FindOneFails(Alone)
  \/ SaveReturns(Alone)
  \/ SaveFails(Alone)
  \/ Avail

SpecAlone == Init /\ [][NextAlone]_vars

\* the three routes against the same collection
NextRoutes ==
  \/ Tick
  \/ \E p \in Procs, d \in RouteDates : Receive(p, AvailPatient, d, RouteSlot)
  \/ \E p \in Procs : FindOneReturns(p)
  \/ \E p \in Procs : FindOneFails(p)
  \/ \E p \in Procs : SaveReturns(p)
  \/ \E p \in Procs : SaveFails(p)
  \/ List
  \/ AvailMissing
  \/ \E targetDate \in RouteDates : AvailReturns(targetDate)
  \/ \E targetDate \in RouteDates : AvailFails(targetDate)

SpecRoutes == Init /\ [][NextRoutes]_vars

\* bookings and list requests against the same collection
NextListing == Next \/ List

SpecListing == Init /\ [][NextListing]_vars

\* ------------------------------------------- listing ledgers of any size
\* the n-th (from 0) day after the epoch's first Monday that is no Sunday
OpenDay(n) == (8 - EpochDay) + n + (n \div 6)

\* a prime above ListLimit + 1: i |-> (i * k) % ListPrime is one-to-one on
\* 1..ListLimit + 1 for every k in 1..ListPatterns
ListPrime == 1009

\* the i-th document inserted into a ledger filled in pattern k: bookings
\* accepted at start-up for distinct (day, morning slot) pairs
Inserted(i, k) ==
  LET j == (i * k) % ListPrime
      patient == CHOOSE q \in Patients :
                   q.sex = IF j % 2 = 0 THEN "Male" ELSE "Other"
  IN  newAppointment(i,
        Body(patient, OpenDay(j \div LastMorningSlot) * TicksPerDay,
             allSlots[(j % LastMorningSlot) + 1]),
        FirstNow)

ListSizes == (0..ListSmall) \cup ((ListLimit - 1)..(ListLimit + 1))

InitList ==
  /\ \E n \in ListSizes, k \in 1..ListPatterns :
       /\ ledger = [i \in 1..n |-> Inserted(i, k)]
       /\ nextId = n + 1
       /\ received = 0
  /\ now = FirstNow
  /\ pc = [p \in Procs |-> "idle"]
  /\ req = [p \in Procs |-> NoRequest]
  /\ slotValidation = [p \in Procs |-> NoValidation]
  /\ appointment = [p \in Procs |-> NoAppointment]
  /\ res = [p \in Procs |-> NoResponse]
  /\ hist = [p \in Procs |-> NoHist]
  /\ evaluation = NoEvaluation
  /\ listing = NoListing
  /\ avail = NoAvail
  /\ InitClient

NextList == List

SpecList == InitList /\ [][NextList]_vars

\* the store answers or fails every operation issued to it: a lookup or an
\* insert is never left pending for ever
Fairness ==
  \A p \in Procs :
    /\ WF_vars(FindOneReturns(p) \/ FindOneFails(p))
    /\ WF_vars(SaveReturns(p) \/ SaveFails(p))

SpecLive == Spec /\ Fairness

\* ---------------------------------------------- the evaluator on its own
\* the clock values a direct call of the evaluator may read
PolicyClocks == FirstNow..((MaxDay + 1) * TicksPerDay)

InitPolicy ==
  /\ ledger = << >>
  /\ now \in PolicyClocks
  /\ nextId = 1
  /\ received = 0
  /\ pc = [p \in Procs |-> "idle"]
  /\ req = [p \in Procs |-> NoRequest]
  /\ slotValidation = [p \in Procs |-> NoValidation]
  /\ appointment = [p \in Procs |-> NoAppointment]
  /\ res = [p \in Procs |-> NoResponse]
  /\ hist = [p \in Procs |-> NoHist]
  /\ evaluation = NoEvaluation
  /\ listing = NoListing
  /\ avail = NoAvail
  /\ InitClient

\* validateAppointmentSlot is called on a date and a catalog slot
Evaluate(appointmentDate, timeSlot) ==
  /\ evaluation' =
       [appointmentDate |-> appointmentDate, timeSlot |-> timeSlot,
        clock |-> now,
        result |-> validateAppointmentSlot(appointmentDate, timeSlot, now)]
  /\ UNCHANGED << ledger, now, nextId, received, pc, req, slotValidation,
                  appointment, res, hist, queryVars, clientVars >>

NextPolicy == \E d \in Dates, s \in Catalog : Evaluate(d, s)

SpecPolicy == InitPolicy /\ [][NextPolicy]_vars

TypeOK ==
  /\ now \in Nat
  /\ received \in 0..MaxRequests
  /\ \A p \in Procs : pc[p] \in {"idle", "findOne", "save", "done"}

\* ------------------------------------------------------------ properties
\* handler p holds a request that validateAppointmentSlot rejected
PolicyRejected(p) ==
  /\ req[p].timeSlot \in Catalog
  /\ ~slotValidation[p].isValid

SundayReason == "Appointments are not available on Sundays"
SaturdayReason == "On Saturdays, appointments are only available until 1:00 PM"
PastDateReason == "Cannot book appointments for past dates"

Rejected(reason) == [isValid |-> FALSE, message |-> reason]

Evaluated == evaluation # NoEvaluation

\* the calendar day (days since the epoch) a Date falls on
DayOf(date) == date \div TicksPerDay

IsAfternoon(timeSlot) == timeSlot \in {"2:00-3:00 PM", "3:00-4:00 PM"}

IsMorning(timeSlot) ==
  timeSlot \in {"9:00-10:00 AM", "10:00-11:00 AM", "11:00-12:00 PM",
                "12:00-1:00 PM"}

\* C1: no two stored appointment records share both the appointment date
\* and the time slot.
C1_NoDoubleBooking ==
  \A i, j \in DOMAIN ledger :
    i # j => ~(/\ ledger[i].appointmentDate = ledger[j].appointmentDate
               /\ ledger[i].timeSlot = ledger[j].timeSlot)

\* C2: of two booking requests for the same (date, slot) that pass the
\* policy check, both received while the slot was free and neither hit by a
\* store failure, exactly one succeeds and the other gets the
\* duplicate-booking error.
C2_ExactlyOneSucceeds ==
  \A p, q \in Procs :
    ( /\ p # q
      /\ pc[p] = "done" /\ pc[q] = "done"
      /\ req[p].appointmentDate = req[q].appointmentDate
      /\ req[p].timeSlot = req[q].timeSlot
      /\ slotValidation[p].isValid /\ slotValidation[q].isValid
      /\ ~hist[p].takenAtStart /\ ~hist[q].takenAtStart
      /\ hist[p].failedAt = "" /\ hist[q].failedAt = "" )
    => \/ res[p].status = 200 /\ res[q] = duplicateResponse
       \/ res[q].status = 200 /\ res[p] = duplicateResponse

\* C3 as stated, read with a store that answers the lookup: a booking
\* request received when a record for its (date, slot) is already stored
\* ends with the duplicate-booking error and inserts nothing.
C3_Original ==
  \A p \in Procs :
    (pc[p] = "done" /\ hist[p].takenAtStart /\ hist[p].failedAt # "findOne")
    => (res[p] = duplicateResponse /\ hist[p].inserts = 0)

\* C3 amended: a booking request received when a record for its
\* (date, slot) is already stored, that passes the policy check and whose
\* lookup the store answers, ends with the duplicate-booking error and
\* inserts nothing.
C3_DuplicateRejected ==
  \A p \in Procs :
    ( /\ pc[p] = "done"
      /\ hist[p].takenAtStart
      /\ slotValidation[p].isValid
      /\ hist[p].failedAt # "findOne" )
    => (res[p] = duplicateResponse /\ hist[p].inserts = 0)

C3_Witness ==
  \E p \in Procs :
    /\ pc[p] = "done"
    /\ hist[p].takenAtStart
    /\ slotValidation[p].isValid
    /\ hist[p].lookups = 1
    /\ res[p] = duplicateResponse

\* C4: a booking request whose insert reaches the store when a concurrent
\* request has already stored the same (date, slot), and that is hit by no
\* other store failure, ends with the duplicate-booking error.
C4_RaceLoserGetsDuplicateError ==
  \A p \in Procs :
    (pc[p] = "done" /\ hist[p].takenAtSave /\ hist[p].failedAt = "")
    => res[p] = duplicateResponse

\* C5: on a Sunday date the evaluator rejects with the Sunday reason,
\* whatever the slot and whether or not the date is in the past.
C5_SundayRejected ==
  (Evaluated /\ getDay(evaluation.appointmentDate) = 0)
  => evaluation.result = Rejected(SundayReason)

C5_Witness ==
  /\ Evaluated
  /\ getDay(evaluation.appointmentDate) = 0
  /\ DayOf(evaluation.appointmentDate) >= DayOf(evaluation.clock)
  /\ IsAfternoon(evaluation.timeSlot)
  /\ evaluation.result = Rejected(SundayReason)

\* C6: on a Saturday date the evaluator rejects the two afternoon slots
\* with the Saturday reason and allows each of the four slots from 9 AM to
\* 1 PM when the date is not before today.
C6_SaturdayRule ==
  (Evaluated /\ getDay(evaluation.appointmentDate) = 6)
  => /\ IsAfternoon(evaluation.timeSlot)
          => evaluation.result = Rejected(SaturdayReason)
     /\ ( /\ IsMorning(evaluation.timeSlot)
          /\ DayOf(evaluation.appointmentDate) >= DayOf(evaluation.clock) )
          => evaluation.result.isValid

C6_Witness ==
  /\ Evaluated
  /\ getDay(evaluation.appointmentDate) = 6
  /\ evaluation.timeSlot = "12:00-1:00 PM"
  /\ DayOf(evaluation.appointmentDate) = DayOf(evaluation.clock)
  /\ evaluation.result.isValid

\* C7: for a date that is not a Sunday and a slot the Saturday rule does
\* not hit, the evaluator rejects with the past-date reason exactly when the
\* date's calendar day is before today's calendar day, and allows the
\* booking otherwise; a booking for today is allowed.
C7_PastDateRule ==
  ( /\ Evaluated
    /\ getDay(evaluation.appointmentDate) # 0
    /\ ~(getDay(evaluation.appointmentDate) = 6
         /\ IsAfternoon(evaluation.timeSlot)) )
  => IF DayOf(evaluation.appointmentDate) < DayOf(evaluation.clock)
       THEN evaluation.result = Rejected(PastDateReason)
       ELSE evaluation.result.isValid

C7_Witness ==
  /\ Evaluated
  /\ getDay(evaluation.appointmentDate) # 0
  /\ DayOf(evaluation.appointmentDate) = DayOf(evaluation.clock)
  /\ evaluation.appointmentDate < evaluation.clock
  /\ evaluation.result.isValid

\* C8: the rules fire in the order Sunday, Saturday afternoon, past date: a
\* past Sunday gets the Sunday reason, a past Saturday with an afternoon
\* slot the Saturday reason, and the past-date reason is given only when
\* neither of the first two rules applies.
C8_RulePriority ==
  Evaluated =>
    LET date == evaluation.appointmentDate
        past == DayOf(date) < DayOf(evaluation.clock)
        sunday == getDay(date) = 0
        saturdayAfternoon == getDay(date) = 6 /\ IsAfternoon(evaluation.timeSlot)
    IN  /\ (past /\ sunday) => evaluation.result.message = SundayReason
        /\ (past /\ saturdayAfternoon)
             => evaluation.result.message = SaturdayReason
        /\ evaluation.result.message = PastDateReason
             => (~sunday /\ ~saturdayAfternoon)

C8_Witness ==
  /\ Evaluated
  /\ getDay(evaluation.appointmentDate) = 6
  /\ IsAfternoon(evaluation.timeSlot)
  /\ DayOf(evaluation.appointmentDate) < DayOf(evaluation.clock)
  /\ evaluation.result.message = SaturdayReason

\* the rule that rejects a request, read off the request and the day it
\* was received on
RuleOf(p) ==
  IF getDay(req[p].appointmentDate) = 0 THEN "sunday"
  ELSE IF getDay(req[p].appointmentDate) = 6 /\ IsAfternoon(req[p].timeSlot)
    THEN "saturday"
  ELSE "past"

\* C9 as stated: the reason returned on a policy rejection is the text
\* ending in a period: 'Appointments are not available on Sundays.', 'On
\* Saturdays, appointments are only available until 1:00 PM.', 'Cannot book
\* appointments for past dates.'.
C9_Original ==
  \A p \in Procs :
    (pc[p] = "done" /\ PolicyRejected(p))
    => res[p].detail =
         CASE RuleOf(p) = "sunday" ->
                "Appointments are not available on Sundays."
           [] RuleOf(p) = "saturday" ->
                "On Saturdays, appointments are only available until 1:00 PM."
           [] OTHER -> "Cannot book appointments for past dates."

\* C9 amended: the reason returned on a policy rejection is the text
\* without a final period: 'Appointments are not available on Sundays', 'On
\* Saturdays, appointments are only available until 1:00 PM', 'Cannot book
\* appointments for past dates'.
C9_ReasonTexts ==
  \A p \in Procs :
    (pc[p] = "done" /\ PolicyRejected(p))
    => res[p].detail =
         CASE RuleOf(p) = "sunday" ->
                "Appointments are not available on Sundays"
           [] RuleOf(p) = "saturday" ->
                "On Saturdays, appointments are only available until 1:00 PM"
           [] OTHER -> "Cannot book appointments for past dates"

C9_Witness ==
  \E p, q \in Procs :
    /\ pc[p] = "done" /\ PolicyRejected(p) /\ RuleOf(p) = "saturday"
    /\ res[p].detail = SaturdayReason
    /\ pc[q] = "done" /\ PolicyRejected(q) /\ RuleOf(q) = "past"
    /\ res[q].detail = PastDateReason

\* C10: a booking request the policy evaluator rejects is answered at once
\* with the policy-violation error and issues neither the duplicate lookup
\* nor an insert.
C10_NoLedgerAccess ==
  \A p \in Procs :
    PolicyRejected(p)
    => /\ pc[p] = "done"
       /\ res[p] = [status |-> 400, detail |-> slotValidation[p].message]
       /\ hist[p].lookups = 0
       /\ hist[p].inserts = 0

C10_Witness ==
  \E p \in Procs :
    /\ PolicyRejected(p)
    /\ pc[p] = "done"
    /\ hist[p].lookups = 0
    /\ Taken(ledger, req[p].appointmentDate, req[p].timeSlot)
    /\ res[p].detail = PastDateReason

\* the outcome classes a finished request falls in, each read off the reply
\* together with what the handler did
Outcomes(p) ==
  {o \in {"success", "validation", "policy", "duplicate", "storage"} :
     CASE o = "success" ->
            /\ res[p].status = 200
            /\ \E i \in DOMAIN ledger : ledger[i].id = appointment[p].id
       [] o = "validation" ->
            /\ res[p] = [status |-> 400, detail |-> "Validation failed"]
            /\ req[p].timeSlot \notin Catalog
       [] o = "policy" ->
            /\ PolicyRejected(p)
            /\ res[p] = [status |-> 400, detail |-> slotValidation[p].message]
       [] o = "duplicate" ->
            /\ ~PolicyRejected(p)
            /\ res[p] = duplicateResponse
       [] o = "storage" ->
            /\ res[p].status = 500
            /\ hist[p].failedAt # ""}

InFlight(p) == pc[p] \in {"findOne", "save"}

\* C11 as stated: a finished booking request has exactly one outcome among
\* success-with-record, policy-violation, duplicate-conflict and
\* storage-failure.
C11_Original ==
  \A p \in Procs :
    pc[p] = "done" => Cardinality(Outcomes(p) \ {"validation"}) = 1

\* C11 amended: every booking request that is started eventually completes,
\* with exactly one outcome among success-with-record, field-validation
\* failure, policy-violation, duplicate-conflict and storage-failure; a
\* request in flight has no reply yet and a reply, once sent, is not
\* followed by a second one.
C11_EveryRequestAnswered ==
  /\ [](\A p \in Procs :
          /\ pc[p] = "done" => Cardinality(Outcomes(p)) = 1
          /\ InFlight(p) => res[p] = NoResponse)
  /\ [][\A p \in Procs :
          (pc[p] = "done" /\ received' = received) => res'[p] = res[p]]_vars
  /\ \A p \in Procs : InFlight(p) ~> (pc[p] = "done")

C11_Witness ==
  \E p \in Procs :
    /\ pc[p] = "done"
    /\ hist[p].failedAt = "save"
    /\ Outcomes(p) = {"storage"}

\* C12: a booking request whose insert ends in storage-failure leaves the
\* ledger exactly as it was before the insert attempt; otherwise the request
\* succeeds and the ledger is the old one with the whole new record added.
C12_FailedInsertWritesNothing ==
  [][\A p \in Procs :
       (pc[p] = "save" /\ pc'[p] = "done")
       => IF res'[p].status = 500
            THEN ledger' = ledger
            ELSE /\ res'[p].status = 200
                 /\ ledger' = Append(ledger, appointment[p])]_vars

C12_Witness ==
  \E p \in Procs :
    /\ pc[p] = "done"
    /\ hist[p].failedAt = "save"
    /\ res[p].status = 500
    /\ ledger # << >>
    /\ \A i \in DOMAIN ledger : ledger[i].id # appointment[p].id

C20_PureCalendarDates ==
  /\ \A i \in DOMAIN ledger : ledger[i].appointmentDate % TicksPerDay = 0
  /\ \A i, j \in DOMAIN ledger :
       ( /\ DayOf(ledger[i].appointmentDate) = DayOf(ledger[j].appointmentDate)
         /\ ledger[i].timeSlot = ledger[j].timeSlot )
       => ledger[i].appointmentDate = ledger[j].appointmentDate

\* ------------------------------------------------------------------ C18
Listed == listing.status = 200
ListedDates == [i \in DOMAIN listing.appointments |->
                  listing.appointments[i].appointmentDate]
StoredIds == {ledger[i].id : i \in DOMAIN ledger}
ListedIds == {listing.appointments[i].id : i \in DOMAIN listing.appointments}

\* C18: a list reply holds stored documents, each at most once, by
\* ascending appointment date (every entry's date is less than or equal to
\* the next one's); it holds at most 1000 entries, and every stored
\* document when 1000 or fewer are stored.
C18_ListSortedAndCapped ==
  Listed =>
    /\ \A i \in 1..(Len(ListedDates) - 1) : ListedDates[i] <= ListedDates[i + 1]
    /\ Len(listing.appointments) <= 1000
    /\ ListedIds \subseteq StoredIds
    /\ Cardinality(ListedIds) = Len(listing.appointments)
    /\ Len(ledger) <= 1000 => ListedIds = StoredIds

\* more than 1000 documents stored in an order that is not by date, and
\* the reply holds 1000 of them
C18_Witness ==
  /\ Listed
  /\ Len(ledger) = 1001
  /\ Len(listing.appointments) = 1000
  /\ \E i \in 1..(Len(ledger) - 1) :
       ledger[i].appointmentDate > ledger[i + 1].appointmentDate

\* ------------------------------------------------------------------ C19
\* p's booking succeeded
Succeeded(p) == pc[p] = "done" /\ res[p].status = 200

\* the last list reply was read after p's document was inserted
ListedAfter(p) ==
  /\ Listed
  /\ \E i \in 1..listing.size : ledger[i].id = appointment[p].id

\* out is text without the spaces text begins and ends with
Stripped(text, out) ==
  /\ out # << >> => out[1] # Space /\ out[Len(out)] # Space
  /\ \E a \in 0..Len(text) :
       /\ a + Len(out) <= Len(text)
       /\ out = SubSeq(text, a + 1, a + Len(out))
       /\ \A i \in DOMAIN text :
            (i <= a \/ i > a + Len(out)) => text[i] = Space

\* n is written as the numeral text with no leading zero
WrittenAs(n, text) ==
  /\ castNumber(text) = n
  /\ Len(text) = 1 \/ text[1] # "0"

\* C19 as stated: after a successful booking a later list reply holds an
\* entry whose name, sex, age, complaint, date and slot are identical to the
\* values the request submitted.
C19_Original ==
  \A p \in Procs :
    (Succeeded(p) /\ ListedAfter(p) /\ listing.size < 1000) =>
      \E i \in DOMAIN listing.appointments :
        LET entry == listing.appointments[i]
            sub == hist[p].submitted
        IN  /\ entry.name = sub.name
            /\ entry.sex = sub.sex
            /\ WrittenAs(entry.age, sub.age)
            /\ entry.complaint = sub.complaint
            /\ entry.appointmentDate = sub.appointmentDate
            /\ entry.timeSlot = sub.timeSlot

\* C19: after a successful booking a later list reply (of fewer than 1000
\* stored documents) holds an entry whose sex, date and slot are the values
\* submitted, whose name and complaint are the submitted texts without
\* their leading and trailing spaces, and whose age is the number the
\* submitted numeral denotes.
C19_RoundTrip ==
  \A p \in Procs :
    (Succeeded(p) /\ ListedAfter(p) /\ listing.size < 1000) =>
      \E i \in DOMAIN listing.appointments :
        LET entry == listing.appointments[i]
            sub == hist[p].submitted
        IN  /\ Stripped(sub.name, entry.name)
            /\ entry.sex = sub.sex
            /\ entry.age = castNumber(sub.age)
            /\ Stripped(sub.complaint, entry.complaint)
            /\ entry.appointmentDate = sub.appointmentDate
            /\ entry.timeSlot = sub.timeSlot
            /\ entry.time_slot = sub.timeSlot

\* a booking submitted with spaces around the name succeeded and a later
\* list reply was read
C19_Witness ==
  \E p \in Procs :
    /\ Succeeded(p)
    /\ ListedAfter(p)
    /\ hist[p].submitted.name[1] = Space

\* ------------------------------------------------------------ C14 - C17
\* the last availability reply lists slots
Answered == avail.status = 200

\* no document was inserted since the last availability reply
Current == avail.size = Len(ledger)

\* date is a calendar date: midnight, no time of day
IsCalendarDate(date) == date % TicksPerDay = 0

IsSunday(date) == (DayOf(date) + EpochDay) % 7 = 0
IsSaturday(date) == (DayOf(date) + EpochDay) % 7 = 6

\* the catalog slots open on date's day of the week
Permitted(date) ==
  IF IsSunday(date) THEN {}
  ELSE IF IsSaturday(date) THEN {s \in Catalog : IsMorning(s)}
  ELSE Catalog

\* the slots with a stored record on date's calendar day
BookedOn(date) ==
  {ledger[i].timeSlot :
     i \in {j \in DOMAIN ledger :
              DayOf(ledger[j].appointmentDate) = DayOf(date)}}

\* the permitted slots with no stored record on the day, in catalog order
PermittedUnbooked(date) ==
  SelectSeq(allSlots,
            LAMBDA s : s \in Permitted(date) /\ s \notin BookedOn(date))

\* C14: an availability reply for a calendar date D lists exactly the catalog slots
\* permitted on D's day of the week (none on Sunday, the four morning and
\* midday slots on Saturday, all six otherwise) that have no stored record
\* on D, in catalog order; after a successful booking of (D, S) it leaves
\* out S and keeps every other permitted, unbooked slot.
C14_AvailabilityExact ==
  (Answered /\ Current /\ IsCalendarDate(avail.date)) =>
    avail.available_slots = PermittedUnbooked(avail.date)

\* C15: an availability reply for a Sunday lists no slot, carries an
\* explanatory message, and is sent without reading the collection.
C15_SundayAvailability ==
  (avail.status # 0 /\ avail.date # 0 /\ IsSunday(avail.date)) =>
    /\ avail.status = 200
    /\ avail.available_slots = << >>
    /\ avail.message # ""
    /\ ~avail.read

\* a Sunday was queried while the collection held a document
C15_Witness ==
  /\ Answered
  /\ IsSunday(avail.date)
  /\ Current
  /\ Len(ledger) > 0

\* C16: the availability query does not apply the past-date rule: a reply
\* for a calendar date before the day it was sent on, not a Sunday, lists
\* the day's permitted unbooked slots, and a booking of each of them on
\* that date is rejected with the past-date reason.
C16_PastDatesListed ==
  (Answered /\ Current /\ avail.clock = now /\ IsCalendarDate(avail.date)
     /\ DayOf(avail.date) < DayOf(avail.clock) /\ ~IsSunday(avail.date)) =>
    /\ avail.available_slots = PermittedUnbooked(avail.date)
    /\ \A i \in DOMAIN avail.available_slots :
         validateAppointmentSlot(avail.date, avail.available_slots[i], now)
           = Rejected(PastDateReason)

\* a step that sends an availability reply
AvailStep == avail' # avail

\* C17: an availability query leaves the collection as it is, and a reply
\* that follows a reply for the same date, with no document inserted in
\* between, lists the same slots with the same message.
C17_ReadOnlyIdempotent ==
  [][AvailStep =>
       /\ ledger' = ledger
       /\ (avail'.status = 200 /\ Repeats(avail, avail'.date, ledger)) =>
            /\ avail'.available_slots = avail.available_slots
            /\ avail'.message = avail.message]_vars

\* a date was queried twice, on both sides of a midnight, with a document
\* stored and a booking in flight, and no insert in between
C17_Witness ==
  /\ Answered
  /\ avail.repeat
  /\ avail.read
  /\ DayOf(avail.clock) > DayOf(FirstNow)
  /\ Len(avail.available_slots) < Len(availableSlots(avail.date))
  /\ \E p \in Procs : pc[p] = "save"

\* ------------------------------------------------------------------ C21
\* C21: the collection is insert-only: in every step of the booking, list
\* and availability routes each stored document stays where it is with all
\* its fields (id, date, slot, createdAt, status 'scheduled') unchanged.
C21_InsertOnly ==
  [][/\ Len(ledger') >= Len(ledger)
     /\ \A i \in DOMAIN ledger :
          /\ ledger'[i] = ledger[i]
          /\ ledger'[i].status = "scheduled"]_vars

\* a second document for a date and slot already stored was inserted, and
\* the list and the availability routes have answered since
C21_Witness ==
  /\ Len(ledger) = 2
  /\ ledger[1].appointmentDate = ledger[2].appointmentDate
  /\ ledger[1].timeSlot = ledger[2].timeSlot
  /\ listing.status = 200 /\ listing.size = 2
  /\ avail.status = 200 /\ avail.size = 2

\* ------------------------------------------------------------------ C22
\* C22: every document the booking route inserts satisfies the slot policy
\* as of its insertion: its slot is in the catalog, its date is no Sunday,
\* it is no Saturday with an afternoon slot, and its date is not before the
\* calendar day of the insert, also when the clock advances between the
\* policy check and the insert.
C22_StoredSatisfyPolicy ==
  [][Len(ledger') > Len(ledger) =>
       LET doc == ledger'[Len(ledger')]
       IN  /\ doc.timeSlot \in Catalog
           /\ ~IsSunday(doc.appointmentDate)
           /\ ~(IsSaturday(doc.appointmentDate) /\ IsAfternoon(doc.timeSlot))
           /\ DayOf(doc.appointmentDate) >= DayOf(now)]_vars

\* ------------------------------------------------------------------ C23
\* the booking request served alone has been answered by a store that
\* answered its operations
Served == pc[Alone] = "done" /\ hist[Alone].failedAt = ""

\* the last availability reply is for the date of the request served alone,
\* sent on the calendar day the request was received on and with the
\* documents stored that were stored when it was received
SameState ==
  /\ Answered
  /\ avail.date = req[Alone].appointmentDate
  /\ DayOf(avail.clock) = DayOf(hist[Alone].today)
  /\ avail.size = Len(ledger) - (IF res[Alone].status = 200 THEN 1 ELSE 0)

\* C23: availability and booking acceptance agree: for a date D not before
\* today and a catalog slot S, S is in the availability reply for D exactly
\* when a booking request for (D, S), served in the same state of the
\* collection and the clock with no other request interleaved, succeeds.
C23_AvailabilityAgrees ==
  (/\ Served
   /\ SameState
   /\ req[Alone].timeSlot \in Catalog
   /\ DayOf(req[Alone].appointmentDate) >= DayOf(hist[Alone].today)) =>
    (req[Alone].timeSlot \in Range(avail.available_slots)
       <=> res[Alone].status = 200)

\* a slot listed for a date with a time of day, on whose calendar day
\* another document is stored, was booked
C23_Witness ==
  /\ Served
  /\ SameState
  /\ res[Alone].status = 200
  /\ req[Alone].timeSlot \in Range(avail.available_slots)
  /\ Len(ledger) = 2
  /\ DayOf(ledger[1].appointmentDate) = DayOf(ledger[2].appointmentDate)
  /\ ledger[1].timeSlot = ledger[2].timeSlot

\* a slot missing from the reply for a date not before today was refused
C23_WitnessRefused ==
  /\ Served
  /\ SameState
  /\ res[Alone].status = 400
  /\ ~IsSunday(avail.date)
  /\ DayOf(avail.date) >= DayOf(avail.clock)
  /\ req[Alone].timeSlot \in Catalog
  /\ req[Alone].timeSlot \notin Range(avail.available_slots)

\* ------------------------------------------------------------ C24, C25
\* no availability request of the client is in flight and the one sent
\* last, for the date now selected, was answered with a list of slots
Settled ==
  /\ pending = {}
  /\ form.formData.appointment_date # NoDate
  /\ fetchLog.outcome = "ok"

\* C24: once every availability request in flight has been answered, in
\* whatever order, the availableSlots shown are those the server returned
\* for the date now selected, not those of a date selected before.
C24_SlotsOfSelectedDate ==
  Settled =>
    form.availableSlots = PermittedUnbooked(form.formData.appointment_date)

\* C25: whenever a date is selected and no availability request is in
\* flight, formData.time_slot is empty or one of availableSlots, also when
\* the user picked the slot while the request for a newly chosen date was
\* in flight.
C25_SelectedSlotAvailable ==
  Settled =>
    \/ form.formData.time_slot = ""
    \/ form.formData.time_slot \in Range(form.availableSlots)
====
